---- MODULE Spec2Model ----
(***************************************************************************)
(* Streaming TTS player of web/src/app/page.tsx: the SharedArrayBuffer     *)
(* ring written by the main thread (writeToSharedRing), the AudioWorklet   *)
(* processor TtsPlayerProcessor that gates and resamples it on the audio   *)
(* thread, and the WebSocket handlers that drive a session.                *)
(*                                                                         *)
(* Samples are identified by the 1-based position, in the session's byte   *)
(* stream, of their low byte; 0 is the zero a fresh SharedArrayBuffer      *)
(* holds.  The fractional read position `pos` is kept as a numerator over  *)
(* outRate, so `frac += step` is `+ inRate` and `frac >= 1.0` is           *)
(* `>= outRate`.                                                           *)
(***************************************************************************)
EXTENDS Integers, Sequences, FiniteSets, TLC

VARIABLES
  ctxRate,    \* ttsCtxRef.current.sampleRate (0: no AudioContext yet)
  samples,    \* ttsSabSamplesRef / ring.length of the current SharedArrayBuffer
  audio,      \* contents of the shared Int16 ring
  ctrl,       \* shared control words: ctrl.w = ctrl[0], ctrl.r = ctrl[1]
  ringRef,    \* ttsSabAudioI16Ref / ttsSabCtrlI32Ref are non-null
  nodeRef,    \* ttsWorkletNodeRef is non-null
  pending,    \* ensureTtsWorklet calls awaiting addModule (their inRate)
  receiving,  \* ttsReceivingBinaryRef
  status,     \* ttsStreamStatus
  latched,    \* ttsStatsLatchedRef
  sampleRate, \* ttsSampleRateRef
  rx,         \* ttsStreamBytesRef, ttsStreamChunksRef, ttsStreamFramesRef, ttsRxInSamplesRef
  sessions,   \* number of tts_begin messages handled
  port,       \* messages posted to the processor, not yet delivered
  proc,       \* fields of the TtsPlayerProcessor instance
  rl,         \* locals of the process() call in flight on the audio thread
  out,        \* outputs[0][0] of the last completed process() call
  statsMsg,   \* newest stats message posted by the processor, not yet handled
  ev,         \* last handler run and its outcome
  wk,         \* ttsWorkletBufferedFramesRef, ...UnderrunsRef, ...RebuffersRef, ...PlayingRef
  bufferedMs, \* ttsBufferedMsRef, ttsMinBufferedMsRef, ttsMaxBufferedMsRef
  recordEnabled, \* ttsRecordEnabled as the WebSocket handlers captured it
  recorded,   \* ttsRecordedBuffersRef and ttsRecordedBytesLenRef
  rendered,   \* history: frames the resampling loop has written since tts_begin
  wav,        \* the Blob behind ttsRecordedUrl
  recordedSampleRate, \* ttsRecordedSampleRate: the state, and as the handlers captured it
  env,        \* the browser: SharedArrayBuffer with crossOriginIsolated, AudioWorklet
  error,      \* the error state of the page
  timers,     \* number of drain-check intervals that are set
  nodes,      \* history: the AudioWorkletNodes that are connected, and those among
              \* them that were sent init_shared with the ring of ttsSabAudioRef
  shown       \* ttsStreamUnderruns, ttsStreamRebuffers: the counters on display

vars == <<ctxRate, samples, audio, ctrl, ringRef, nodeRef, pending, receiving,
          status, latched, sampleRate, rx, sessions, port, proc, rl, out, statsMsg, ev,
          wk, bufferedMs, recordEnabled, recorded, rendered, wav, recordedSampleRate,
          env, error, timers, nodes, shown>>

(***************************************************************************)
(* Bounds of the model.                                                    *)
(***************************************************************************)
BlockFrames == 3      \* outputs[0][0].length
MaxSessions == 1      \* tts_begin messages in a run of Spec
MaxBytes == 4         \* bytes received in a run of Spec
MaxCursor == 6        \* render cursor in a run of Spec
MaxRingChunks == 4    \* chunks received in a run of RingSpec
MaxRingCursor == 9    \* render cursor in a run of RingSpec
MaxGateBytes == 8     \* bytes received in a run of GateSpec
MaxCount == 2         \* underruns and rebuffers told apart in GateSpec
MaxHoldCursor == 18   \* render cursor in a run of HoldSpec
MaxStopBytes == 4     \* bytes received in a session of StopSpec
MaxRestartSessions == 2  \* tts_begin messages up to a state of RestartSpec
MaxRestartBytes == 2  \* bytes received in a session of RestartSpec
MaxDrainBytes == 10   \* bytes received in a run of DrainSpec
MaxTelemetryBytes == 8  \* bytes received in a run of TelemetrySpec
MaxSetupSessions == 2  \* tts_begin messages in a run of SetupSpec
MaxSetupBytes == 4    \* bytes received in a session of SetupSpec
MaxFinishBytes == 4   \* bytes received in a run of FinishSpec

\* <<tts_begin sample_rate, AudioContext sampleRate>> in Hz:
\* step = inRate / outRate is 1, 1/2 or 2
RatePairs == {<<1, 1>>, <<1, 2>>, <<2, 1>>}

(***************************************************************************)
(* Program constants.                                                      *)
(***************************************************************************)
StatsEvery == 20
DefaultInRate == 24000
ttsPrebufferMs == 2000
ttsLowWaterMs == 20
ttsHighWaterMs == 400
ttsRebufferHoldMs == 150
ttsRebufferCooldownMs == 2000
ttsEmergencyLowMs == 10
seconds == 12

Min(a, b) == IF a < b THEN a ELSE b
Max(a, b) == IF a > b THEN a ELSE b

NoProc == [exists |-> FALSE]
NoStats == [type |-> "none"]
Silence == [silent |-> TRUE]

\* the element of a one-element set.  Only({e(x) : x \in {v}}) is e(v) with
\* v evaluated once: the loops below carry their locals this way.
Only(S) == CHOOSE x \in S : TRUE

RECURSIVE Zeros(_)
Zeros(n) == IF n <= 0 THEN <<>> ELSE <<Silence>> \o Zeros(n - 1)

(***************************************************************************)
(* TtsPlayerProcessor: constructor and port.onmessage.                     *)
(***************************************************************************)
NewProcessor(ctxSampleRate) ==
  [exists |-> TRUE,
   inRate |-> DefaultInRate, outRate |-> ctxSampleRate,
   audioSamples |-> 0,
   underruns |-> 0, rebuffers |-> 0,
   playing |-> FALSE, startedOnce |-> FALSE, enabled |-> TRUE, eos |-> FALSE,
   holdFrames |-> 0, holdUntil |-> 0,
   cooldownFrames |-> 0, cooldownUntil |-> 0,
   emergencyLowFrames |-> 0,
   outCursor |-> 0,
   startFrames |-> (ctxSampleRate * 9) \div 10,
   lowFrames |-> ctxSampleRate \div 4,
   highFrames |-> (ctxSampleRate * 3) \div 4,
   pos |-> 0, tick |-> 0]

OnConfig(p, msg) ==
  [p EXCEPT !.inRate = msg.inRate, !.enabled = TRUE, !.eos = FALSE,
            !.startFrames = Max(0, msg.startFrames),
            !.lowFrames = Max(0, msg.lowFrames),
            !.highFrames = Max(0, msg.highFrames),
            !.holdFrames = Max(0, msg.holdFrames),
            !.cooldownFrames = Max(0, msg.cooldownFrames),
            !.emergencyLowFrames = Max(0, msg.emergencyLowFrames)]

OnInitShared(p, msg) == [p EXCEPT !.audioSamples = msg.audioSamples]

OnEos(p) == [p EXCEPT !.eos = TRUE]

OnStop(p) == [p EXCEPT !.enabled = FALSE, !.playing = FALSE]

\* a reset handler that flips enabled instead of setting it
OnReset_Toggling(p) ==
  [p EXCEPT !.underruns = 0, !.rebuffers = 0, !.playing = FALSE,
            !.enabled = ~@, !.eos = FALSE, !.holdUntil = 0,
            !.cooldownUntil = 0, !.outCursor = 0, !.pos = 0]

OnReset(p) ==
  [p EXCEPT !.underruns = 0, !.rebuffers = 0, !.playing = FALSE,
            !.enabled = TRUE, !.eos = FALSE, !.holdUntil = 0,
            !.cooldownUntil = 0, !.outCursor = 0, !.pos = 0]

OnMessage(p, msg) ==
  CASE msg.type = "config" -> OnConfig(p, msg)
    [] msg.type = "init_shared" /\ msg.sab -> OnInitShared(p, msg)
    [] msg.type = "eos" -> OnEos(p)
    [] msg.type = "stop" -> OnStop(p)
    [] msg.type = "reset" -> OnReset(p)
    [] OTHER -> p

(***************************************************************************)
(* TtsPlayerProcessor: helpers of process().                               *)
(***************************************************************************)
AvailableInputSamples(w, r, size) == IF w >= r THEN w - r ELSE size - (r - w)

BufferedFrames(avail, outRate, inRate) == (avail * outRate) \div inRate

\* a gate without the minimum pause
HoldActive_Never(p) == FALSE

HoldActive(p) == p.startedOnce /\ p.outCursor < p.holdUntil

StartThreshold(p) ==
  IF p.startedOnce /\ p.highFrames > 0 THEN p.highFrames ELSE p.startFrames

\* a gate that needs more than the threshold
ShouldStart_Strict(bufferedFrames, startThreshold) ==
  bufferedFrames > startThreshold

ShouldStart(bufferedFrames, startThreshold) ==
  bufferedFrames >= startThreshold \/ (startThreshold = 0 /\ bufferedFrames > 0)

InCooldown(p) == p.cooldownFrames > 0 /\ p.outCursor < p.cooldownUntil

Emergency(p, bufferedFramesNow) ==
  p.emergencyLowFrames > 0 /\ bufferedFramesNow <= p.emergencyLowFrames

ShouldRebuffer(p, bufferedFramesNow) ==
  /\ p.lowFrames > 0
  /\ bufferedFramesNow < p.lowFrames
  /\ ~(InCooldown(p) /\ ~Emergency(p, bufferedFramesNow))

StatsOf(p, bufferedFrames) ==
  [type |-> "stats", bufferedFrames |-> bufferedFrames, underruns |-> p.underruns,
   rebuffers |-> p.rebuffers, playing |-> p.playing]

\* this._tick++; if ((this._tick % 20) === 0) this.port.postMessage(stats)
Ticked(p) == [p EXCEPT !.tick = @ + 1]
PostIfDue(p, bufferedFrames) ==
  IF p.tick % StatsEvery = 0 THEN StatsOf(p, bufferedFrames) ELSE NoStats

\* out.fill(0) and return, with or without the tick and stats message.
\* path names the return statement of process() that was taken.
\* a silent block that stores a read cursor
SilentBlock_Storing(p, frames, bufferedFrames) ==
  [proc |-> Ticked(p), store |-> TRUE, r |-> 0, out |-> Zeros(frames),
   reads |-> <<>>, post |-> PostIfDue(Ticked(p), bufferedFrames), path |-> "buffering"]

SilentBlock(p, frames, bufferedFrames) ==
  [proc |-> Ticked(p), store |-> FALSE, r |-> 0, out |-> Zeros(frames),
   reads |-> <<>>, post |-> PostIfDue(Ticked(p), bufferedFrames), path |-> "buffering"]
\* a disabled processor that counts its silence as an underrun
DisabledBlock_Counting(p, frames) ==
  [SilentBlock([p EXCEPT !.underruns = @ + 1], frames, 0) EXCEPT !.path = "disabled"]

\* if (!this.enabled) { out.fill(0); this._tick++; ...; return true; }
DisabledBlock(p, frames) ==
  [SilentBlock(p, frames, 0) EXCEPT !.path = "disabled"]
SilentBlockNoTick(p, frames) ==
  [proc |-> p, store |-> FALSE, r |-> 0, out |-> Zeros(frames),
   reads |-> <<>>, post |-> NoStats, path |-> "unconfigured"]

(***************************************************************************)
(* TtsPlayerProcessor.process(): the resampling loop.  A loop state holds  *)
(* the locals r, avail, frac, s0, s1, the block written so far, the ring   *)
(* slots read (slot, value) and whether the inner loop hit `avail < 1`.    *)
(***************************************************************************)
ReadInputSampleAt(ring, pos) == ring[pos]

\* out[i] = s0 + (s1 - s0) * frac, with the value the local avail has then
Frame(st) ==
  [silent |-> FALSE, s0 |-> st.s0, s1 |-> st.s1, frac |-> st.frac, avail |-> st.avail]

\* while (frac >= 1.0) { frac -= 1.0; r = (r + 1) % size; avail -= 1; ... }
RECURSIVE ConsumeInput(_, _, _, _)
ConsumeInput(st, ring, size, outRate) ==
  IF st.frac < outRate THEN st
  ELSE LET r1 == (st.r + 1) % size
           a1 == st.avail - 1
           nx == (r1 + 1) % size
       IN IF a1 < 1
          THEN [st EXCEPT !.frac = @ - outRate, !.r = r1, !.avail = a1,
                          !.underrun = TRUE]
          ELSE Only({ ConsumeInput(consumed, ring, size, outRate) :
                        consumed \in
                          {[st EXCEPT !.frac = @ - outRate, !.r = r1, !.avail = a1,
                                      !.s0 = st.s1, !.s1 = ReadInputSampleAt(ring, nx),
                                      !.reads = Append(@, <<nx, ReadInputSampleAt(ring, nx)>>)]} })

\* for (let i = 0; i < frames; i++) { out[i] = ...; frac += step; while ...; if (avail < 1) break; }
RECURSIVE ResampleFrames(_, _, _, _, _, _, _)
ResampleFrames(i, frames, st, ring, size, inRate, outRate) ==
  IF i >= frames THEN st
  ELSE Only({ IF c.underrun
                THEN [c EXCEPT !.out = @ \o Zeros(frames - (i + 1))]
                ELSE ResampleFrames(i + 1, frames, c, ring, size, inRate, outRate) :
                c \in {ConsumeInput([st EXCEPT !.out = Append(@, Frame(st)),
                                               !.frac = @ + inRate],
                                    ring, size, outRate)} })

Resample(p, r0, avail0, ring, frames) ==
  LET size == p.audioSamples
      nx == (r0 + 1) % size
      st0 == [r |-> r0, avail |-> avail0, frac |-> p.pos,
              s0 |-> ReadInputSampleAt(ring, r0), s1 |-> ReadInputSampleAt(ring, nx),
              out |-> <<>>,
              reads |-> << <<r0, ReadInputSampleAt(ring, r0)>>,
                           <<nx, ReadInputSampleAt(ring, nx)>> >>,
              underrun |-> FALSE]
  IN Only({ ResampleFrames(0, frames, st, ring, size, p.inRate, p.outRate) :
              st \in {st0} })

(***************************************************************************)
(* TtsPlayerProcessor.process(): from the Atomics.load of the cursors on.  *)
(* p already has outCursor advanced; wNow is ctrl[0] at the final load.    *)
(***************************************************************************)
\* the block `if (!this.playing) { ... }`: the processor after the start decision
GateStart(p, bufferedFrames) ==
  IF ShouldStart(bufferedFrames, StartThreshold(p)) /\ ~HoldActive(p)
  THEN [p EXCEPT !.playing = TRUE, !.startedOnce = TRUE,
                 !.cooldownUntil = IF p.cooldownFrames > 0
                                   THEN p.outCursor + p.cooldownFrames ELSE @]
  ELSE p

\* a rebuffer pause that restarts the resampler
Rebuffer_ClearingCarry(p) ==
  [p EXCEPT !.playing = FALSE, !.rebuffers = @ + 1, !.pos = 0,
            !.holdUntil = IF p.holdFrames > 0 THEN p.outCursor + p.holdFrames ELSE @]

\* a rebuffer pause that is counted as an underrun as well
Rebuffer_CountingUnderrun(p) ==
  [p EXCEPT !.playing = FALSE, !.rebuffers = @ + 1, !.underruns = @ + 1,
            !.holdUntil = IF p.holdFrames > 0 THEN p.outCursor + p.holdFrames ELSE @]

Rebuffer(p) ==
  [p EXCEPT !.playing = FALSE, !.rebuffers = @ + 1,
            !.holdUntil = IF p.holdFrames > 0 THEN p.outCursor + p.holdFrames ELSE @]

RenderPlaying(p, w0, r0, wNow, ring, frames) ==
  LET size == p.audioSamples
      avail0 == AvailableInputSamples(w0, r0, size)
      bufferedFramesNow == BufferedFrames(avail0, p.outRate, p.inRate)
  IN IF ShouldRebuffer(p, bufferedFramesNow)
     THEN [SilentBlock(Rebuffer(p), frames, bufferedFramesNow) EXCEPT !.path = "rebuffer"]
     ELSE LET q == IF ~p.playing /\ p.highFrames > 0 /\ bufferedFramesNow >= p.highFrames
                   THEN [p EXCEPT !.playing = TRUE] ELSE p
          IN IF avail0 < 2
             THEN [SilentBlock([q EXCEPT !.underruns = @ + 1], frames,
                               BufferedFrames(avail0, q.outRate, q.inRate))
                     EXCEPT !.path = "underrun"]
             ELSE Only({ LET q1 == [q EXCEPT !.pos = st.frac,
                                               !.underruns = IF st.underrun THEN @ + 1 ELSE @]
                               q2 == Ticked(q1)
                               avail1 == AvailableInputSamples(wNow, st.r, size)
                           IN [proc |-> q2, store |-> TRUE, r |-> st.r, out |-> st.out,
                               reads |-> st.reads,
                               post |-> PostIfDue(q2, BufferedFrames(avail1, q2.outRate,
                                                                     q2.inRate)),
                               path |-> "rendered"] :
                           st \in {Resample(q, r0, avail0, ring, frames)} })

ProcessRest(p, w0, r0, wNow, ring, frames) ==
  LET size == p.audioSamples
      avail0 == AvailableInputSamples(w0, r0, size)
      bufferedFrames == BufferedFrames(avail0, p.outRate, p.inRate)
  IN IF p.eos /\ avail0 <= 0
     THEN [SilentBlock([p EXCEPT !.enabled = FALSE, !.playing = FALSE], frames, 0)
             EXCEPT !.path = "drained"]
     ELSE IF p.playing
     THEN RenderPlaying(p, w0, r0, wNow, ring, frames)
     ELSE IF ~ShouldStart(bufferedFrames, StartThreshold(p))
     THEN SilentBlock(p, frames, bufferedFrames)
     ELSE IF ~GateStart(p, bufferedFrames).playing
     THEN [SilentBlockNoTick(p, frames) EXCEPT !.path = "held"]
     ELSE RenderPlaying(GateStart(p, bufferedFrames), w0, r0, wNow, ring, frames)

(***************************************************************************)
(* Main thread: the shared ring.                                           *)
(***************************************************************************)
RingLength(ring) == Cardinality(DOMAIN ring)

NewRing(size) == [i \in 0..(size - 1) |-> 0]

\* a ring without the reserved slot
FreeSpace_NoReserve(size, avail) == size - avail

FreeSpace(size, avail) == size - avail - 1

AdvanceRead(r, drop, size) == (r + drop) % size

\* a write cursor that is not wrapped
AdvanceWrite_NoWrap(w, toWrite, size) == w + toWrite

AdvanceWrite(w, toWrite, size) == (w + toWrite) % size

\* ring.set(src.subarray(from, from + count), at)
RingSet(ring, src, from, count, at) ==
  [i \in DOMAIN ring |->
     IF i >= at /\ i < at + count THEN src[from + (i - at) + 1] ELSE ring[i]]

\* writeToSharedRing from `const size = ring.length` on; src is the Int16Array.
\* threw: the second ring.set raises RangeError (source longer than the ring)
\* after the read cursor was stored and the first part copied.
WriteToSharedRing(ring, c, src) ==
  LET size == RingLength(ring)
      n == Len(src)
      avail == AvailableInputSamples(c.w, c.r, size)
      free0 == FreeSpace(size, avail)
      drop == IF n > free0 THEN n - free0 ELSE 0
      r1 == IF n > free0 THEN AdvanceRead(c.r, drop, size) ELSE c.r
      free1 == free0 + drop
      toWrite == Min(n, free1)
      first == Min(toWrite, size - c.w)
      remain == toWrite - first
      ring1 == RingSet(ring, src, 0, first, c.w)
  IN IF remain > size
     THEN [audio |-> ring1, ctrl |-> [w |-> c.w, r |-> r1], threw |-> TRUE,
           drop |-> drop, free |-> free0]
     ELSE [audio |-> IF remain > 0 THEN RingSet(ring1, src, first, remain, 0) ELSE ring1,
           ctrl |-> [w |-> AdvanceWrite(c.w, toWrite, size), r |-> r1],
           threw |-> FALSE, drop |-> drop, free |-> free0]

\* new Int16Array(pcmBuf) of a buffer holding stream bytes first .. first+len-1
\* (len even): sample k is named by the position of its low byte.
Int16ArrayOf(first, len) == [k \in 1..(len \div 2) |-> first + 2 * (k - 1)]

(***************************************************************************)
(* Main thread: handlers.                                                  *)
(***************************************************************************)
\* the thresholds ensureTtsWorklet computes from ctx.sampleRate
Thresholds(ctxSampleRate) ==
  LET lowFrames == Max(0, (ctxSampleRate * ttsLowWaterMs) \div 1000)
  IN [startFrames |-> Max(0, (ctxSampleRate * ttsPrebufferMs) \div 1000),
      lowFrames |-> lowFrames,
      highFrames |-> Max(lowFrames, (ctxSampleRate * ttsHighWaterMs) \div 1000),
      holdFrames |-> Max(0, (ctxSampleRate * ttsRebufferHoldMs) \div 1000),
      cooldownFrames |-> Max(0, (ctxSampleRate * ttsRebufferCooldownMs) \div 1000),
      emergencyLowFrames |-> Max(0, (ctxSampleRate * ttsEmergencyLowMs) \div 1000)]

\* At the 1 Hz and 2 Hz of RatePairs every threshold under a second rounds
\* to 0.  ScaledThresholds stands for the thresholds of an audio-rate
\* context: all positive, emergencyLow < low <= hold <= high <= start =
\* cooldown as the millisecond constants order them, in frames of the model.
ScaledThresholds ==
  [startFrames |-> 4, lowFrames |-> 3, highFrames |-> 4, holdFrames |-> 3,
   cooldownFrames |-> 4, emergencyLowFrames |-> 1]

Configs(ctxSampleRate) == {Thresholds(ctxSampleRate), ScaledThresholds}

\* ensureSharedRing: const samples = Math.max(1, Math.floor(inRate * seconds))
RingSamples(inRate) == Max(1, inRate * seconds)

ConfigMsg(inRate, cfg) ==
  [type |-> "config", inRate |-> inRate,
   startFrames |-> cfg.startFrames, lowFrames |-> cfg.lowFrames,
   highFrames |-> cfg.highFrames, holdFrames |-> cfg.holdFrames,
   cooldownFrames |-> cfg.cooldownFrames,
   emergencyLowFrames |-> cfg.emergencyLowFrames]

InitSharedMsg(sab, audioSamples) ==
  [type |-> "init_shared", sab |-> sab, audioSamples |-> audioSamples]

RxZero == [bytes |-> 0, chunks |-> 0, frames |-> 0, inSamples |-> 0]

WkZero == [bufferedFrames |-> 0, underruns |-> 0, rebuffers |-> 0, playing |-> FALSE]

\* useState<number>(0) of both counters; setTtsStreamUnderruns(0), setTtsStreamRebuffers(0)
ShownZero == [underruns |-> 0, rebuffers |-> 0]

\* setTtsStreamUnderruns(ttsWorkletUnderrunsRef.current || 0) and the same of rebuffers
ShownOf(w) == [underruns |-> w.underruns, rebuffers |-> w.rebuffers]

\* min is Number.POSITIVE_INFINITY while minFinite is FALSE
MsZero == [cur |-> 0, minFinite |-> FALSE, min |-> 0, max |-> 0]

\* a recorded buffer is told by the position of its first byte in the
\* stream of the session and its byteLength
NoRecording == [bufs |-> <<>>, bytes |-> 0]

\* ttsRecordedUrl === ""
NoWav == [made |-> FALSE]

\* setError("")
NoError == ""

NoNodes == [connected |-> 0, attached |-> 0]

\* stopTtsStream: the node of ttsWorkletNodeRef, if any, is disconnected, and
\* the ring of ttsSabAudioRef is let go
Disconnected(n, hasNode) ==
  [connected |-> IF hasNode THEN n.connected - 1 ELSE n.connected, attached |-> 0]

\* sab: typeof SharedArrayBuffer !== "undefined" and crossOriginIsolated;
\* worklet: "audioWorklet" in ctx
Supported == [sab |-> TRUE, worklet |-> TRUE]

Browsers == [sab : BOOLEAN, worklet : BOOLEAN]

IdleCall == [pc |-> "idle", w0 |-> 0, r0 |-> 0]

\* node.port.postMessage(msg) through ttsWorkletNodeRef.current?.
PostToNode(msg) == IF nodeRef THEN Append(port, msg) ELSE port

\* Math.round((inSamples * outRate) / inRate)
RoundedFrames(inSamples, outRate, inRate) ==
  (2 * inSamples * outRate + inRate) \div (2 * inRate)

\* the page after load in a browser e: no AudioContext node, no ring, no
\* session
Loaded(e) ==
  /\ ctxRate \in {rp[2] : rp \in RatePairs}
  /\ samples = 0
  /\ audio = NewRing(0)
  /\ ctrl = [w |-> 0, r |-> 0]
  /\ ringRef = FALSE
  /\ nodeRef = FALSE
  /\ pending = <<>>
  /\ receiving = FALSE
  /\ status = "idle"
  /\ latched = FALSE
  /\ sampleRate = DefaultInRate
  /\ rx = RxZero
  /\ sessions = 0
  /\ port = <<>>
  /\ proc = NoProc
  /\ rl = IdleCall
  /\ out = <<>>
  /\ statsMsg = NoStats
  /\ ev = [op |-> "load"]
  /\ wk = WkZero
  /\ shown = ShownZero
  /\ bufferedMs = MsZero
  /\ recordEnabled \in BOOLEAN
  /\ recorded = NoRecording
  /\ rendered = 0
  /\ wav = NoWav
  /\ recordedSampleRate = [state |-> 0, captured |-> 0]
  /\ env = e
  /\ error = NoError
  /\ timers = 0
  /\ nodes = NoNodes

\* the page after load in a browser that has all it needs
Init == Loaded(Supported)

\* ws.onmessage, msg.type === "tts_begin": stopTtsStream({resetStats: true}),
\* the resets, ensureSharedRing and the start of ensureTtsWorklet.  The node
\* disconnected by stopTtsStream keeps the previous SharedArrayBuffer and is
\* no longer followed.
TtsBegin(rate) ==
  /\ sessions' = sessions + 1
  /\ nodeRef' = FALSE
  /\ proc' = NoProc
  /\ port' = <<>>
  /\ rl' = IdleCall
  /\ latched' = FALSE
  /\ sampleRate' = rate
  /\ receiving' = TRUE
  /\ status' = "buffering"
  /\ rx' = RxZero
  /\ samples' = IF env.sab THEN RingSamples(rate) ELSE 0
  /\ audio' = IF env.sab THEN NewRing(RingSamples(rate)) ELSE NewRing(0)
  /\ ctrl' = [w |-> 0, r |-> 0]
  /\ ringRef' = env.sab
  /\ pending' = IF env.sab THEN Append(pending, rate) ELSE pending
  /\ error' = IF env.sab THEN error ELSE "SharedArrayBuffer unavailable"
  /\ wk' = WkZero
  /\ bufferedMs' = MsZero
  /\ recorded' = IF recordEnabled THEN NoRecording ELSE recorded
  /\ wav' = IF recordEnabled THEN NoWav ELSE wav
  /\ recordedSampleRate' = IF recordEnabled
                            THEN [recordedSampleRate EXCEPT !.state = rate]
                            ELSE recordedSampleRate
  /\ rendered' = 0
  /\ ev' = [op |-> "tts_begin", rate |-> rate]
  /\ nodes' = Disconnected(nodes, nodeRef)
  /\ shown' = ShownZero
  /\ UNCHANGED <<ctxRate, out, statsMsg, recordEnabled, env, timers>>

\* ensureTtsWorklet throws for want of ctx.audioWorklet, and the .catch of
\* tts_begin reports it
WorkletFailed ==
  /\ pending # <<>>
  /\ ~env.worklet
  /\ pending' = Tail(pending)
  /\ error' = "AudioWorklet not supported in this browser."
  /\ ev' = [op |-> "worklet_failed"]
  /\ UNCHANGED <<shown, ctxRate, samples, audio, ctrl, ringRef, nodeRef, receiving, status,
                 latched, sampleRate, rx, sessions, port, proc, rl, out, statsMsg,
                 wk, bufferedMs, recordEnabled, recorded,
                 rendered, wav, recordedSampleRate, env, timers, nodes>>

\* ensureTtsWorklet after `await ctx.audioWorklet.addModule`, and the .then of
\* tts_begin that posts init_shared.  A node that ttsWorkletNodeRef held
\* until now stays connected and is no longer followed; nodes counts it.
WorkletReady(cfg) ==
  /\ pending # <<>>
  /\ env.worklet
  /\ pending' = Tail(pending)
  /\ proc' = NewProcessor(ctxRate)
  /\ rl' = IdleCall
  /\ nodeRef' = TRUE
  /\ port' = <<ConfigMsg(Head(pending), cfg), InitSharedMsg(ringRef, samples)>>
  /\ nodes' = [connected |-> nodes.connected + 1,
               attached |-> nodes.attached + (IF ringRef THEN 1 ELSE 0)]
  /\ ev' = [op |-> "worklet_ready"]
  /\ UNCHANGED <<shown, ctxRate, samples, audio, ctrl, ringRef, receiving, status, latched,
                 sampleRate, rx, sessions, out, statsMsg,
                 wk, bufferedMs, recordEnabled, recorded,
                 rendered, wav, recordedSampleRate, env, error, timers>>

\* a handler without the guard on binary frames
BinaryDropped_Never(receivingBinary) == FALSE

\* if (!ttsReceivingBinaryRef.current) return;
BinaryDropped(receivingBinary) == ~receivingBinary

\* ws.onmessage with binary data: the guard, handleBuffer and writeToSharedRing
Chunk(len) ==
  /\ IF BinaryDropped(receiving)
     THEN /\ ev' = [op |-> "chunk", len |-> len, outcome |-> "dropped"]
          /\ UNCHANGED <<rx, audio, ctrl, recorded>>
     ELSE LET first == rx.bytes + 1
              inSamples == len \div 2
              res == WriteToSharedRing(audio, ctrl, Int16ArrayOf(first, len))
          IN /\ rx' = [bytes |-> rx.bytes + len, chunks |-> rx.chunks + 1,
                       inSamples |-> rx.inSamples + inSamples,
                       frames |-> rx.frames + RoundedFrames(inSamples, ctxRate, sampleRate)]
             /\ recorded' = IF recordEnabled
                            THEN [bufs |-> Append(recorded.bufs, [first |-> first, len |-> len]),
                                  bytes |-> recorded.bytes + len]
                            ELSE recorded
             /\ IF ~ringRef
                THEN /\ ev' = [op |-> "chunk", len |-> len, outcome |-> "noring"]
                     /\ UNCHANGED <<audio, ctrl>>
                ELSE IF len % 2 # 0
                THEN /\ ev' = [op |-> "chunk", len |-> len, outcome |-> "threw"]
                     /\ UNCHANGED <<audio, ctrl>>
                ELSE /\ audio' = res.audio
                     /\ ctrl' = res.ctrl
                     /\ ev' = [op |-> "chunk", len |-> len, drop |-> res.drop,
                               outcome |-> IF res.threw THEN "threw" ELSE "wrote"]
  /\ UNCHANGED <<shown, ctxRate, samples, ringRef, nodeRef, pending, receiving, status,
                 latched, sampleRate, sessions, port, proc, rl, out, statsMsg,
                 wk, bufferedMs, recordEnabled,
                 rendered, wav, recordedSampleRate, env, error, timers, nodes>>

(***************************************************************************)
(* The WAV export.  A byte of the recording is told by its position in the *)
(* stream of the session; 0 is a byte of a fresh ArrayBuffer.              *)
(***************************************************************************)
\* joinedBytes: the recorded buffers copied one after the other into a new
\* Uint8Array(totalBytes)
RECURSIVE JoinedBytes(_)
JoinedBytes(bufs) ==
  IF bufs = <<>>
  THEN <<>>
  ELSE [i \in 1..Head(bufs).len |-> Head(bufs).first + i - 1] \o JoinedBytes(Tail(bufs))

\* bytes.subarray(begin, end): the same ArrayBuffer behind a shorter view
Subarray(bytes, begin, end) ==
  [buffer |-> bytes.buffer, byteOffset |-> bytes.byteOffset + begin,
   byteLength |-> end - begin]

\* bytesToInt16: a copy, in an ArrayBuffer of its own
BytesToInt16(bytes) ==
  LET len == bytes.byteLength \div 2
  IN [buffer |-> SubSeq(bytes.buffer, bytes.byteOffset + 1, bytes.byteOffset + 2 * len),
      byteOffset |-> 0, byteLength |-> 2 * len]

\* bytesToInt16View: an Int16Array over the ArrayBuffer of an aligned view
BytesToInt16View(bytes) ==
  IF bytes.byteLength % 2 = 0 /\ bytes.byteOffset % 2 = 0
  THEN [buffer |-> bytes.buffer, byteOffset |-> bytes.byteOffset,
        byteLength |-> bytes.byteLength]
  ELSE BytesToInt16(bytes)

\* pcmToWavBlob: the header fields, and the copy of the whole pcm.buffer
\* behind the header, which throws a RangeError when it does not fit
PcmToWavBlob(pcm, rate) ==
  LET numChannels == 1
      bytesPerSample == 2
      blockAlign == numChannels * bytesPerSample
      byteRate == rate * blockAlign
      dataSize == pcm.byteLength
      source == pcm.buffer
  IN IF Len(source) > dataSize
     THEN [threw |-> TRUE]
     ELSE [threw |-> FALSE, made |-> TRUE, size |-> 44 + dataSize,
           riffSize |-> 36 + dataSize, fmtSize |-> 16, format |-> 1,
           numChannels |-> numChannels, sampleRate |-> rate, byteRate |-> byteRate,
           blockAlign |-> blockAlign, bitsPerSample |-> 16, dataSize |-> dataSize,
           payload |-> [i \in 1..dataSize |-> IF i <= Len(source) THEN source[i] ELSE 0]]

\* the Blob as the page keeps it
BlobOf(w) == [f \in DOMAIN w \ {"threw"} |-> w[f]]

\* finalizeTtsRecording; ttsRecordedChunksRef is never filled
FinalizeTtsRecording(enabled, recordedRate, rateRef, rec) ==
  LET sr == IF recordedRate # 0 THEN recordedRate ELSE rateRef
      joinedBytes == [buffer |-> JoinedBytes(rec.bufs), byteOffset |-> 0,
                      byteLength |-> rec.bytes]
      evenLen == joinedBytes.byteLength - (joinedBytes.byteLength % 2)
      i16 == BytesToInt16View(Subarray(joinedBytes, 0, evenLen))
      w == PcmToWavBlob(i16, sr)
  IN IF ~enabled \/ sr = 0 \/ rec.bufs = <<>> \/ rec.bytes = 0
     THEN [outcome |-> "skipped"]
     ELSE IF w.threw
     THEN [outcome |-> "threw"]
     ELSE [outcome |-> "made", wav |-> BlobOf(w)]

\* ws.onmessage, msg.type === "tts_end"; an exception of finalizeTtsRecording is
\* caught by the handler, after everything but the drain timer has run
TtsEnd ==
  LET fin == FinalizeTtsRecording(recordEnabled, recordedSampleRate.captured,
                                  sampleRate, recorded) IN
  /\ status' = "draining"
  /\ receiving' = FALSE
  /\ port' = PostToNode([type |-> "eos"])
  /\ latched' = TRUE
  /\ shown' = ShownOf(wk)
  /\ wav' = IF fin.outcome = "made" THEN fin.wav ELSE wav
  /\ timers' = IF fin.outcome = "threw" THEN timers ELSE timers + 1
  /\ ev' = [op |-> "tts_end", finalize |-> fin.outcome]
  /\ UNCHANGED <<ctxRate, samples, audio, ctrl, ringRef, nodeRef, pending, sampleRate,
                 rx, sessions, proc, rl, out, statsMsg,
                 wk, bufferedMs, recordEnabled, recorded,
                 rendered, recordedSampleRate, env, error, nodes>>

\* the refs stopTtsStream assigns
MainRefs ==
  [ringRef |-> ringRef, samples |-> samples, nodeRef |-> nodeRef, port |-> port,
   status |-> status, wk |-> wk, bufferedMs |-> bufferedMs, shown |-> shown]

\* a stopTtsStream that clears the statistics whatever resetStats says
StopTtsStream_AlwaysHard(m, resetStats) ==
  [ringRef |-> FALSE,
   samples |-> 0,
   nodeRef |-> FALSE,
   port |-> IF m.nodeRef
            THEN Append(m.port, [type |-> IF resetStats THEN "reset" ELSE "stop"])
            ELSE m.port,
   status |-> "idle",
   wk |-> [bufferedFrames |-> 0, playing |-> FALSE,
           underruns |-> 0,
           rebuffers |-> 0],
   bufferedMs |-> MsZero,
   shown |-> ShownZero]

\* stopTtsStream(opts) as a function of the refs: the ring handles are
\* dropped, reset or stop is posted to the node if there is one, the node is
\* disconnected and forgotten, and with resetStats the statistics are cleared.
StopTtsStream(m, resetStats) ==
  [ringRef |-> FALSE,
   samples |-> 0,
   nodeRef |-> FALSE,
   port |-> IF m.nodeRef
            THEN Append(m.port, [type |-> IF resetStats THEN "reset" ELSE "stop"])
            ELSE m.port,
   status |-> "idle",
   wk |-> [bufferedFrames |-> 0, playing |-> FALSE,
           underruns |-> IF resetStats THEN 0 ELSE m.wk.underruns,
           rebuffers |-> IF resetStats THEN 0 ELSE m.wk.rebuffers],
   bufferedMs |-> IF resetStats THEN MsZero ELSE [m.bufferedMs EXCEPT !.cur = 0],
   shown |-> IF resetStats THEN ShownZero ELSE m.shown]

\* a call of stopTtsStream outside tts_begin.  The processor of the
\* disconnected node keeps its views of the shared buffers.
StopStream(resetStats) ==
  /\ \E m \in {StopTtsStream(MainRefs, resetStats)} :
        /\ ringRef' = m.ringRef
        /\ samples' = m.samples
        /\ nodeRef' = m.nodeRef
        /\ port' = m.port
        /\ status' = m.status
        /\ wk' = m.wk
        /\ bufferedMs' = m.bufferedMs
        /\ shown' = m.shown
  /\ nodes' = Disconnected(nodes, nodeRef)
  /\ ev' = [op |-> "stop", resetStats |-> resetStats]
  /\ UNCHANGED <<ctxRate, audio, ctrl, pending, receiving, latched, sampleRate, rx,
                 sessions, proc, rl, out, statsMsg, recordEnabled, recorded,
                 rendered, wav, recordedSampleRate, env, error, timers>>

\* the "Stop playback" button
StopPlayback == StopStream(TRUE)

\* node.port.onmessage on the main thread.  The handler overwrites the four
\* refs, so handling a backlog of stats messages leaves them at the values of
\* the newest one: statsMsg keeps the newest message not yet handled.
OnStats ==
  /\ statsMsg # NoStats
  /\ wk' = [bufferedFrames |-> statsMsg.bufferedFrames, underruns |-> statsMsg.underruns,
            rebuffers |-> statsMsg.rebuffers, playing |-> statsMsg.playing]
  /\ statsMsg' = NoStats
  /\ ev' = [op |-> "stats"]
  /\ UNCHANGED <<shown, ctxRate, samples, audio, ctrl, ringRef, nodeRef, pending, receiving,
                 status, latched, sampleRate, rx, sessions, port, proc, rl, out,
                 bufferedMs, recordEnabled, recorded,
                 rendered, wav, recordedSampleRate, env, error, timers, nodes>>

\* (bufferedFrames / outRate) * 1000, a whole number at the rates of RatePairs
BufferedMsOf(bufferedFrames, outRate) == (bufferedFrames * 1000) \div outRate

\* an interval that tracks min and max on every tick
TrackMinMax_Always(streamStatus, playing, bufferedFrames) == TRUE

\* the condition under which the interval tracks min and max
TrackMinMax(streamStatus, playing, bufferedFrames) ==
  streamStatus # "idle" /\ playing /\ bufferedFrames > 0

\* an interval that shows the counters of the refs whatever the latch says
ShowsCounters_Unlatched(streamStatus, hasNode, isLatched) ==
  streamStatus # "idle" \/ hasNode

\* if (ttsStreamStatusRef.current !== "idle" || ttsWorkletNodeRef.current)
\*   if (!ttsStatsLatchedRef.current)
ShowsCounters(streamStatus, hasNode, isLatched) ==
  (streamStatus # "idle" \/ hasNode) /\ ~isLatched

\* the 200 ms interval that refreshes the buffered-ms refs and the counters
\* on display
StatsInterval ==
  /\ LET ms == BufferedMsOf(wk.bufferedFrames, ctxRate)
         track == TrackMinMax(status, wk.playing, wk.bufferedFrames)
     IN bufferedMs' =
          [cur |-> ms,
           minFinite |-> bufferedMs.minFinite \/ track,
           min |-> IF ~track THEN bufferedMs.min
                   ELSE IF bufferedMs.minFinite THEN Min(bufferedMs.min, ms) ELSE ms,
           max |-> IF track THEN Max(bufferedMs.max, ms) ELSE bufferedMs.max]
  /\ shown' = IF ShowsCounters(status, nodeRef, latched) THEN ShownOf(wk) ELSE shown
  /\ ev' = [op |-> "interval"]
  /\ UNCHANGED <<ctxRate, samples, audio, ctrl, ringRef, nodeRef, pending, receiving,
                 status, latched, sampleRate, rx, sessions, port, proc, rl, out, statsMsg,
                 wk, recordEnabled, recorded,
                 rendered, wav, recordedSampleRate, env, error, timers, nodes>>

\* ttsStartedRef.current: false from useRef and in stopTtsStream, and assigned
\* nowhere else
ttsStartedRef == FALSE

\* a drain check that takes the stream for started
DrainDue_Started(bufferedFrames, outRate) == BufferedMsOf(bufferedFrames, outRate) <= 5

\* if (ttsStartedRef.current && ms <= 5)
DrainDue(bufferedFrames, outRate) ==
  ttsStartedRef /\ BufferedMsOf(bufferedFrames, outRate) <= 5

\* a tick of one of the 200 ms intervals that the tts_end handlers have
\* set: when the check is due, stopTtsStream({resetStats: false}) and
\* clearInterval(check)
DrainCheck ==
  /\ timers > 0
  /\ \E due \in {DrainDue(wk.bufferedFrames, ctxRate)} :
     \E m \in {IF due THEN StopTtsStream(MainRefs, FALSE) ELSE MainRefs} :
        /\ ringRef' = m.ringRef
        /\ samples' = m.samples
        /\ nodeRef' = m.nodeRef
        /\ port' = m.port
        /\ status' = m.status
        /\ wk' = m.wk
        /\ bufferedMs' = m.bufferedMs
        /\ shown' = m.shown
        /\ timers' = IF due THEN timers - 1 ELSE timers
        /\ nodes' = IF due THEN Disconnected(nodes, nodeRef) ELSE nodes
        /\ ev' = [op |-> "drain_check", due |-> due]
  /\ UNCHANGED <<ctxRate, audio, ctrl, pending, receiving, latched, sampleRate, rx,
                 sessions, proc, rl, out, statsMsg, recordEnabled, recorded,
                 rendered, wav, recordedSampleRate, env, error>>

\* disconnect() and connect(): the handlers of the new WebSocket capture the
\* value the "Record streamed TTS" checkbox has at that moment
Connect(enabled) ==
  /\ recordEnabled' = enabled
  /\ recordedSampleRate' = [recordedSampleRate EXCEPT !.captured = recordedSampleRate.state]
  /\ error' = NoError
  /\ ev' = [op |-> "connect"]
  /\ UNCHANGED <<shown, ctxRate, samples, audio, ctrl, ringRef, nodeRef, pending, receiving,
                 status, latched, sampleRate, rx, sessions, port, proc, rl, out, statsMsg,
                 wk, bufferedMs, recorded,
                 rendered, wav, env, timers, nodes>>

(***************************************************************************)
(* Audio thread.                                                           *)
(***************************************************************************)
\* port.onmessage of the processor; handlers run between process() calls
Deliver ==
  /\ proc.exists
  /\ rl.pc = "idle"
  /\ port # <<>>
  /\ proc' = OnMessage(proc, Head(port))
  /\ port' = Tail(port)
  /\ ev' = [op |-> "message", type |-> Head(port).type]
  /\ UNCHANGED <<shown, ctxRate, samples, audio, ctrl, ringRef, nodeRef, pending, receiving,
                 status, latched, sampleRate, rx, sessions, rl, out, statsMsg,
                 wk, bufferedMs, recordEnabled, recorded,
                 rendered, wav, recordedSampleRate, env, error, timers, nodes>>

RenderEv(res) == [op |-> "render", stored |-> res.store, path |-> res.path]

\* process() reads outCursor, holdUntil and cooldownUntil only through the
\* comparisons outCursor < holdUntil and outCursor < cooldownUntil, _tick
\* only modulo 20, and never reads underruns.  Rebase(p) is p with the
\* cursor moved back to 0, the two deadlines moved with it, the tick
\* reduced and the underrun count saturated.
Rebase(p) ==
  [p EXCEPT !.outCursor = 0,
            !.holdUntil = Max(0, @ - p.outCursor),
            !.cooldownUntil = Max(0, @ - p.outCursor),
            !.tick = @ % StatsEvery,
            !.underruns = Min(@, MaxCount)]

\* the processor as kept after a call: as it is, or rebased so that the
\* calls can go on for ever within finitely many states
Stored(p, rebased) == IF rebased THEN Rebase(p) ELSE p

\* a process() that advances the cursor only once the ring is attached
AdvanceCursor_WhenAttached(p, frames) ==
  IF p.audioSamples = 0 THEN p ELSE [p EXCEPT !.outCursor = @ + frames]

\* this.outCursor += frames
AdvanceCursor(p, frames) == [p EXCEPT !.outCursor = @ + frames]

\* process() up to the two Atomics.load of the cursors
ProcessBegin(frames, rebased) ==
  /\ proc.exists
  /\ rl.pc = "idle"
  /\ LET p == AdvanceCursor(proc, frames)
     IN IF p.audioSamples = 0
        THEN LET res == SilentBlockNoTick(p, frames)
             IN /\ proc' = Stored(res.proc, rebased)
                /\ out' = res.out
                /\ ev' = RenderEv(res)
                /\ UNCHANGED <<rl, statsMsg>>
        ELSE IF ~p.enabled
        THEN LET res == DisabledBlock(p, frames)
             IN /\ proc' = Stored(res.proc, rebased)
                /\ out' = res.out
                /\ statsMsg' = IF res.post = NoStats THEN statsMsg ELSE res.post
                /\ ev' = RenderEv(res)
                /\ UNCHANGED rl
        ELSE /\ proc' = p
             /\ rl' = [pc |-> "loaded", w0 |-> ctrl.w, r0 |-> ctrl.r]
             /\ UNCHANGED <<out, statsMsg, ev>>
  /\ UNCHANGED <<shown, ctxRate, samples, audio, ctrl, ringRef, nodeRef, pending, receiving,
                 status, latched, sampleRate, rx, sessions, port,
                 wk, bufferedMs, recordEnabled, recorded,
                 rendered, wav, recordedSampleRate, env, error, timers, nodes>>

\* the frames of a block that the resampling loop wrote (the rest is out.fill(0))
Written(block) == Cardinality({i \in 1..Len(block) : ~block[i].silent})

\* process() from the loads to its return
ProcessEnd(frames, rebased) ==
  /\ rl.pc = "loaded"
  /\ \E res \in {ProcessRest(proc, rl.w0, rl.r0, ctrl.w, audio, frames)} :
        /\ proc' = Stored(res.proc, rebased)
        /\ ctrl' = IF res.store THEN [ctrl EXCEPT !.r = res.r] ELSE ctrl
        /\ out' = res.out
        /\ rendered' = rendered + Written(res.out)
        /\ statsMsg' = IF res.post = NoStats THEN statsMsg ELSE res.post
        /\ ev' = RenderEv(res)
  /\ rl' = IdleCall
  /\ UNCHANGED <<shown, ctxRate, samples, audio, ringRef, nodeRef, pending, receiving,
                 status, latched, sampleRate, rx, sessions, port,
                 wk, bufferedMs, recordEnabled, recorded, wav, recordedSampleRate, env, error, timers,
                 nodes>>

(***************************************************************************)
(* Spec: a session from page load.                                         *)
(***************************************************************************)
ChunkLens == {2, 3}

Next ==
  \/ \E rp \in RatePairs :
        sessions < MaxSessions /\ rp[2] = ctxRate /\ TtsBegin(rp[1])
  \/ \E cfg \in Configs(ctxRate) : WorkletReady(cfg)
  \/ \E len \in ChunkLens : rx.bytes + len <= MaxBytes /\ Chunk(len)
  \/ receiving /\ TtsEnd
  \/ StopPlayback
  \/ \E enabled \in BOOLEAN : enabled # recordEnabled /\ Connect(enabled)
  \/ Deliver
  \/ proc.exists /\ proc.outCursor < MaxCursor /\ ProcessBegin(BlockFrames, FALSE)
  \/ ProcessEnd(BlockFrames, FALSE)

Spec == Init /\ [][Next]_vars

(***************************************************************************)
(* The state Spec reaches by TtsBegin, WorkletReady and the delivery of    *)
(* config and init_shared before the first process() call.                 *)
(***************************************************************************)
Established(inRate, outRate, cfg) ==
  /\ ctxRate = outRate
  /\ samples = RingSamples(inRate)
  /\ audio = NewRing(RingSamples(inRate))
  /\ ctrl = [w |-> 0, r |-> 0]
  /\ ringRef = TRUE
  /\ nodeRef = TRUE
  /\ pending = <<>>
  /\ receiving = TRUE
  /\ status = "buffering"
  /\ latched = FALSE
  /\ sampleRate = inRate
  /\ rx = RxZero
  /\ sessions = 1
  /\ port = <<>>
  /\ proc = OnMessage(OnMessage(NewProcessor(outRate), ConfigMsg(inRate, cfg)),
                      InitSharedMsg(TRUE, RingSamples(inRate)))
  /\ rl = IdleCall
  /\ out = <<>>
  /\ statsMsg = NoStats
  /\ ev = [op |-> "message", type |-> "init_shared"]
  /\ wk = WkZero
  /\ shown = ShownZero
  /\ bufferedMs = MsZero
  /\ recordEnabled = TRUE
  /\ recorded = NoRecording
  /\ rendered = 0
  /\ wav = NoWav
  /\ recordedSampleRate = [state |-> inRate, captured |-> 0]
  /\ env = Supported
  /\ error = NoError
  /\ timers = 0
  /\ nodes = [connected |-> 1, attached |-> 1]

(***************************************************************************)
(* RingSpec: writer against renderer on an established session, with      *)
(* chunks up to more than twice the ring.                                  *)
(***************************************************************************)
RingChunkLens == {3, 4, 16, 24, 52}

RingInit ==
  \E rp \in RatePairs : Established(rp[1], rp[2], Thresholds(rp[2]))

RingNext ==
  \/ \E len \in RingChunkLens : rx.chunks < MaxRingChunks /\ Chunk(len)
  \/ proc.outCursor < MaxRingCursor /\ ProcessBegin(BlockFrames, FALSE)
  \/ ProcessEnd(BlockFrames, FALSE)

RingSpec == RingInit /\ [][RingNext]_vars

(***************************************************************************)
(* FifoSpec: RingSpec with every chunk shorter than the ring, so that no   *)
(* write raises.                                                           *)
(***************************************************************************)
FifoChunkLens == {4, 16}

FifoNext ==
  \/ \E len \in FifoChunkLens : rx.chunks < MaxRingChunks /\ Chunk(len)
  \/ proc.outCursor < MaxRingCursor /\ ProcessBegin(BlockFrames, FALSE)
  \/ ProcessEnd(BlockFrames, FALSE)

FifoSpec == RingInit /\ [][FifoNext]_vars

(***************************************************************************)
(* GateSpec: the gate on an established session fed a few short chunks and *)
(* a tts_end, with the processor rebased after every call.  The audio      *)
(* thread calls process() once per render quantum as long as the node      *)
(* lives, and a posted message is delivered: weak fairness.                *)
(***************************************************************************)
GateChunkLens == {2, 4}

GateInit ==
  \E rp \in RatePairs : \E cfg \in Configs(rp[2]) : Established(rp[1], rp[2], cfg)

GateNext ==
  \/ \E len \in GateChunkLens : rx.bytes + len <= MaxGateBytes /\ Chunk(len)
  \/ receiving /\ TtsEnd
  \/ Deliver
  \/ ProcessBegin(BlockFrames, TRUE)
  \/ ProcessEnd(BlockFrames, TRUE)

GateSpec ==
  /\ GateInit
  /\ [][GateNext]_vars
  /\ WF_vars(ProcessBegin(BlockFrames, TRUE))
  /\ WF_vars(ProcessEnd(BlockFrames, TRUE))
  /\ WF_vars(Deliver)

(***************************************************************************)
(* The state Spec reaches by TtsBegin, WorkletReady and the delivery of    *)
(* config: init_shared is still in the port, the processor has no ring.    *)
(***************************************************************************)
Configured(inRate, outRate, cfg) ==
  /\ ctxRate = outRate
  /\ samples = RingSamples(inRate)
  /\ audio = NewRing(RingSamples(inRate))
  /\ ctrl = [w |-> 0, r |-> 0]
  /\ ringRef = TRUE
  /\ nodeRef = TRUE
  /\ pending = <<>>
  /\ receiving = TRUE
  /\ status = "buffering"
  /\ latched = FALSE
  /\ sampleRate = inRate
  /\ rx = RxZero
  /\ sessions = 1
  /\ port = <<InitSharedMsg(TRUE, RingSamples(inRate))>>
  /\ proc = OnMessage(NewProcessor(outRate), ConfigMsg(inRate, cfg))
  /\ rl = IdleCall
  /\ out = <<>>
  /\ statsMsg = NoStats
  /\ ev = [op |-> "message", type |-> "config"]
  /\ wk = WkZero
  /\ shown = ShownZero
  /\ bufferedMs = MsZero
  /\ recordEnabled = TRUE
  /\ recorded = NoRecording
  /\ rendered = 0
  /\ wav = NoWav
  /\ recordedSampleRate = [state |-> inRate, captured |-> 0]
  /\ env = Supported
  /\ error = NoError
  /\ timers = 0
  /\ nodes = [connected |-> 1, attached |-> 1]

(***************************************************************************)
(* HoldSpec: the gate with a hold longer than two blocks, from the state   *)
(* before the ring is attached, with the render cursor as the code keeps   *)
(* it.                                                                     *)
(***************************************************************************)
\* ScaledThresholds with a hold of more than two render quanta (150 ms are
\* 56 quanta of 128 frames at 48 kHz)
HoldThresholds == [ScaledThresholds EXCEPT !.holdFrames = 7]

HoldInit == \E rp \in RatePairs : Configured(rp[1], rp[2], HoldThresholds)

HoldNext ==
  \/ \E len \in GateChunkLens : rx.bytes + len <= MaxGateBytes /\ Chunk(len)
  \/ receiving /\ TtsEnd
  \/ Deliver
  \/ proc.outCursor < MaxHoldCursor /\ ProcessBegin(BlockFrames, FALSE)
  \/ ProcessEnd(BlockFrames, FALSE)

HoldSpec == HoldInit /\ [][HoldNext]_vars

(***************************************************************************)
(* StopSpec: stopTtsStream called with either value of resetStats at any   *)
(* moment of an established session, with the statistics path: the stats   *)
(* messages of the processor, their handler and the 200 ms interval.  The  *)
(* processor is rebased after every call.  (page.tsx passes resetStats:    *)
(* true from tts_begin and the Stop button and resetStats: false from the  *)
(* drain check of tts_end.)                                                *)
(***************************************************************************)
StopInit == \E rp \in RatePairs : Established(rp[1], rp[2], ScaledThresholds)

StopNext ==
  \/ \E len \in GateChunkLens : rx.bytes + len <= MaxStopBytes /\ Chunk(len)
  \/ receiving /\ TtsEnd
  \/ \E resetStats \in BOOLEAN : StopStream(resetStats)
  \/ OnStats
  \/ StatsInterval
  \/ Deliver
  \/ ProcessBegin(BlockFrames, TRUE)
  \/ ProcessEnd(BlockFrames, TRUE)

StopSpec == StopInit /\ [][StopNext]_vars

(***************************************************************************)
(* RestartSpec: an established session that is fed, played and ended, the  *)
(* WebSocket reconnected with the recording checkbox either way, and a     *)
(* further tts_begin at any moment.  The processor is rebased after every  *)
(* call.                                                                   *)
(***************************************************************************)
RestartChunkLens == {2}

RestartInit == \E rp \in RatePairs : Established(rp[1], rp[2], ScaledThresholds)

RestartNext ==
  \/ \E rp \in RatePairs :
        sessions < MaxRestartSessions /\ rp[2] = ctxRate /\ TtsBegin(rp[1])
  \/ WorkletReady(ScaledThresholds)
  \/ \E len \in RestartChunkLens : rx.bytes + len <= MaxRestartBytes /\ Chunk(len)
  \/ receiving /\ TtsEnd
  \/ \E enabled \in BOOLEAN : enabled # recordEnabled /\ Connect(enabled)
  \/ OnStats
  \/ Deliver
  \/ ProcessBegin(BlockFrames, TRUE)
  \/ ProcessEnd(BlockFrames, TRUE)

RestartSpec == RestartInit /\ [][RestartNext]_vars

(***************************************************************************)
(* DrainSpec: an established session that receives up to MaxDrainBytes in  *)
(* chunks of one or two samples and a tts_end, and is rendered for as long *)
(* as process() is called.  The processor is rebased after every call.     *)
(***************************************************************************)
DrainInit ==
  \E rp \in RatePairs : \E cfg \in Configs(rp[2]) : Established(rp[1], rp[2], cfg)

DrainNext ==
  \/ \E len \in GateChunkLens : rx.bytes + len <= MaxDrainBytes /\ Chunk(len)
  \/ receiving /\ TtsEnd
  \/ Deliver
  \/ ProcessBegin(BlockFrames, TRUE)
  \/ ProcessEnd(BlockFrames, TRUE)

DrainSpec == DrainInit /\ [][DrainNext]_vars

(***************************************************************************)
(* TelemetrySpec: an established session that is fed, played, ended and    *)
(* stopped by the button, with the stats messages handled, the stats       *)
(* interval and the drain check of tts_end ticking at any moment.  The     *)
(* processor is rebased after every call.                                  *)
(***************************************************************************)
\* chunks of two samples
TelemetryChunkLens == {4}

TelemetryInit == \E rp \in RatePairs : Established(rp[1], rp[2], ScaledThresholds)

TelemetryNext ==
  \/ \E len \in TelemetryChunkLens : rx.bytes + len <= MaxTelemetryBytes /\ Chunk(len)
  \/ receiving /\ TtsEnd
  \/ StopPlayback
  \/ OnStats
  \/ StatsInterval
  \/ DrainCheck
  \/ Deliver
  \/ ProcessBegin(BlockFrames, TRUE)
  \/ ProcessEnd(BlockFrames, TRUE)

TelemetrySpec == TelemetryInit /\ [][TelemetryNext]_vars

(***************************************************************************)
(* SetupSpec: sessions from page load in a browser that may lack the       *)
(* SharedArrayBuffer, the AudioWorklet, or both.  The processor is rebased *)
(* after every call.                                                       *)
(***************************************************************************)
SetupInit == \E e \in Browsers : Loaded(e)

SetupNext ==
  \/ \E rp \in RatePairs :
        sessions < MaxSetupSessions /\ rp[2] = ctxRate /\ TtsBegin(rp[1])
  \/ WorkletReady(ScaledThresholds)
  \/ WorkletFailed
  \/ \E len \in ChunkLens : rx.bytes + len <= MaxSetupBytes /\ Chunk(len)
  \/ receiving /\ TtsEnd
  \/ Deliver
  \/ ProcessBegin(BlockFrames, TRUE)
  \/ ProcessEnd(BlockFrames, TRUE)

SetupSpec == SetupInit /\ [][SetupNext]_vars

(***************************************************************************)
(* LiveSpec: one session from page load, left to itself.  addModule        *)
(* resolves, posted messages are delivered and process() is called once    *)
(* per render quantum: weak fairness.  A posted message is handled between *)
(* two process() calls, where Deliver is enabled again and again: strong   *)
(* fairness.  The processor is rebased after every call.                   *)
(***************************************************************************)
LiveNext ==
  \/ \E rp \in RatePairs :
        sessions < MaxSessions /\ rp[2] = ctxRate /\ TtsBegin(rp[1])
  \/ \E cfg \in Configs(ctxRate) : WorkletReady(cfg)
  \/ \E len \in ChunkLens : rx.bytes + len <= MaxBytes /\ Chunk(len)
  \/ receiving /\ TtsEnd
  \/ Deliver
  \/ ProcessBegin(BlockFrames, TRUE)
  \/ ProcessEnd(BlockFrames, TRUE)

LiveSpec ==
  /\ Init
  /\ [][LiveNext]_vars
  /\ WF_vars(\E cfg \in Configs(ctxRate) : WorkletReady(cfg))
  /\ SF_vars(Deliver)
  /\ WF_vars(ProcessBegin(BlockFrames, TRUE))
  /\ WF_vars(ProcessEnd(BlockFrames, TRUE))

(***************************************************************************)
(* FinishSpec: an established session that is fed, ended and left to       *)
(* itself.  Posted messages are delivered, process() is called once per    *)
(* render quantum, stats messages are handled and the drain checks tick    *)
(* every 200 ms: weak fairness, and strong fairness for Deliver as in      *)
(* LiveSpec.  The processor is rebased after every call.                   *)
(***************************************************************************)
FinishInit == \E rp \in RatePairs : Established(rp[1], rp[2], ScaledThresholds)

FinishNext ==
  \/ \E len \in TelemetryChunkLens : rx.bytes + len <= MaxFinishBytes /\ Chunk(len)
  \/ receiving /\ TtsEnd
  \/ OnStats
  \/ DrainCheck
  \/ Deliver
  \/ ProcessBegin(BlockFrames, TRUE)
  \/ ProcessEnd(BlockFrames, TRUE)

FinishSpec ==
  /\ FinishInit
  /\ [][FinishNext]_vars
  /\ WF_vars(OnStats)
  /\ WF_vars(DrainCheck)
  /\ SF_vars(Deliver)
  /\ WF_vars(ProcessBegin(BlockFrames, TRUE))
  /\ WF_vars(ProcessEnd(BlockFrames, TRUE))

(***************************************************************************)
(* ResetSpec: an established session that is fed and played and then       *)
(* stopped by the button, which posts reset to the processor; process()    *)
(* goes on being called on the processor, whose ring keeps what was not    *)
(* played.  The processor is rebased after every call.                     *)
(***************************************************************************)
MaxResetBytes == 12

\* ScaledThresholds with the high-water mark below the prebuffer, as 400 ms
\* are below 2000 ms
ResetThresholds == [ScaledThresholds EXCEPT !.highFrames = 3]

ResetInit == \E rp \in RatePairs : Established(rp[1], rp[2], ResetThresholds)

ResetNext ==
  \/ \E len \in TelemetryChunkLens : rx.bytes + len <= MaxResetBytes /\ Chunk(len)
  \/ StopStream(TRUE)
  \/ Deliver
  \/ ProcessBegin(BlockFrames, TRUE)
  \/ ProcessEnd(BlockFrames, TRUE)

ResetSpec == ResetInit /\ [][ResetNext]_vars

(***************************************************************************)
(* Quantities the properties speak of.                                     *)
(***************************************************************************)
Occupied == AvailableInputSamples(ctrl.w, ctrl.r, RingLength(audio))

\* the samples between the read and the write cursor, oldest first
Readable(ring, c) ==
  [k \in 1..AvailableInputSamples(c.w, c.r, RingLength(ring)) |->
     ring[(c.r + k - 1) % RingLength(ring)]]

LastN(n, seq) ==
  IF Len(seq) <= n THEN seq ELSE SubSeq(seq, Len(seq) - n + 1, Len(seq))

\* a step of Chunk that reached writeToSharedRing with an even-length buffer
WroteStep == rx'.bytes > rx.bytes /\ ev'.op = "chunk" /\ ev'.outcome # "noring"
                /\ ev'.len % 2 = 0
ChunkSrc == Int16ArrayOf(rx.bytes + 1, rx'.bytes - rx.bytes)

\* a step that completes a process() call which stored the read cursor
StoreStep == rl.pc = "loaded" /\ rl'.pc = "idle" /\ ev'.op = "render" /\ ev'.stored

(***************************************************************************)
(* C1: in every reachable state both cursors lie in [0, C) and the         *)
(* occupied count, (write - read) mod C as the renderer computes it, is at *)
(* most C - 1.                                                             *)
(***************************************************************************)
C1_CursorsInRange ==
  LET size == RingLength(audio)
  IN size > 0 =>
       /\ ctrl.w \in 0..(size - 1)
       /\ ctrl.r \in 0..(size - 1)
       /\ Occupied = (ctrl.w - ctrl.r) % size
       /\ Occupied <= size - 1

\* a write that wrapped and filled the ring, after the renderer consumed
C1_Witness ==
  /\ ev.op = "chunk" /\ ev.outcome = "wrote"
  /\ ctrl.w < ctrl.r
  /\ Occupied = RingLength(audio) - 1
  /\ proc.startedOnce /\ proc.pos > 0

(***************************************************************************)
(* C2: the ring samples one block is interpolated from are written samples *)
(* in arrival order: s0 before s1 in every frame, and never an older       *)
(* sample after a newer one.  (0 is the never-written slot; s1 counts when *)
(* its weight frac is not 0.)                                              *)
(***************************************************************************)
FrameInOrder(f) ==
  f.silent \/ f.frac = 0 \/ f.s1 = 0 \/ f.s0 < f.s1

C2_FifoOrder ==
  /\ \A i \in 1..Len(out) : FrameInOrder(out[i])
  /\ \A i, j \in 1..Len(out) :
       (i < j /\ ~out[i].silent /\ ~out[j].silent) => out[i].s0 <= out[j].s0

(***************************************************************************)
(* C3: a process() call that stores the read cursor lowers the occupied    *)
(* count by exactly what it consumed, whatever the writer did between its  *)
(* loads and its store.                                                    *)
(***************************************************************************)
C3_NoLostCursorUpdate ==
  [][StoreStep =>
       Occupied' = Occupied - ((ctrl'.r - rl.r0) % RingLength(audio))]_vars

(***************************************************************************)
(* C4: a write of n <= C-1 samples that exceeds the free space advances    *)
(* the read cursor by n - free, leaves C-1 occupied and the newest C-1     *)
(* samples readable in order; one that fits leaves the read cursor alone.  *)
(***************************************************************************)
C4_DropOldest ==
  [][LET size == RingLength(audio)
         n == Len(ChunkSrc)
         free == size - Occupied - 1
     IN (WroteStep /\ n <= size - 1) =>
          /\ ev'.outcome = "wrote"
          /\ IF n > free
             THEN /\ ctrl'.r = (ctrl.r + (n - free)) % size
                  /\ Occupied' = size - 1
                  /\ Readable(audio', ctrl') =
                       LastN(size - 1, Readable(audio, ctrl) \o ChunkSrc)
             ELSE /\ ctrl'.r = ctrl.r
                  /\ Readable(audio', ctrl') = Readable(audio, ctrl) \o ChunkSrc]_vars

\* an overflowing write of at most C-1 samples has happened
C4_Witness ==
  /\ ev.op = "chunk" /\ ev.outcome = "wrote"
  /\ ev.drop > 0
  /\ ev.len \div 2 <= RingLength(audio) - 1
  /\ Occupied = RingLength(audio) - 1

(***************************************************************************)
(* C5: a write of n > C-1 samples completes without raising and leaves the *)
(* newest C-1 samples of the input readable, in order.                     *)
(***************************************************************************)
C5_OversizeWrite ==
  [][LET size == RingLength(audio)
         n == Len(ChunkSrc)
     IN (WroteStep /\ n > size - 1) =>
          /\ ev'.outcome = "wrote"
          /\ Occupied' <= size - 1
          /\ Readable(audio', ctrl') = LastN(size - 1, ChunkSrc)]_vars

(***************************************************************************)
(* C6: before anything is rendered or dropped the ring holds exactly the   *)
(* 16-bit samples of the concatenated byte stream, and an odd-length chunk *)
(* raises nothing.                                                         *)
(***************************************************************************)
C6_OddByteCarried ==
  /\ (ev.op = "chunk" /\ ev.len % 2 = 1) => ev.outcome # "threw"
  /\ (ringRef /\ proc.exists /\ proc.outCursor = 0
        /\ rx.bytes \div 2 <= RingLength(audio) - 1)
       => Readable(audio, ctrl) = Int16ArrayOf(1, 2 * (rx.bytes \div 2))

\* a process() call that got past the empty-after-eos check completes
GateStep ==
  /\ rl.pc = "loaded" /\ rl'.pc = "idle"
  /\ ~(proc.eos /\ AvailableInputSamples(rl.w0, rl.r0, RingLength(audio)) <= 0)

\* floor(avail0 * outRate / inRate) of the call in flight
Buffered ==
  (AvailableInputSamples(rl.w0, rl.r0, RingLength(audio)) * proc.outRate) \div proc.inRate

(***************************************************************************)
(* C7: on a render tick of a gate that never started, the gate is playing  *)
(* afterwards if and only if buffered >= startFrames (or buffered > 0 when *)
(* startFrames = 0), with buffered = floor(avail * outRate / inRate).  At  *)
(* 24000 Hz in, 48000 Hz out and a threshold of 43200 frames, 12000        *)
(* samples do not open the gate and 24000 do.                              *)
(***************************************************************************)
C7_ScenarioA ==
  /\ BufferedFrames(12000, 48000, 24000) = 24000
  /\ ~ShouldStart(BufferedFrames(12000, 48000, 24000), 43200)
  /\ BufferedFrames(24000, 48000, 24000) = 48000
  /\ ShouldStart(BufferedFrames(24000, 48000, 24000), 43200)

C7_GateStart ==
  [][/\ C7_ScenarioA
     /\ (rl.pc = "loaded" /\ rl'.pc = "idle" /\ ~proc.playing /\ ~proc.startedOnce)
          => (proc'.playing <=>
                \/ Buffered >= proc.startFrames
                \/ (proc.startFrames = 0 /\ Buffered > 0))]_vars

\* the gate opened on a tick after a tick that kept it closed, once the
\* second chunk had arrived
C7_Witness ==
  /\ ev.op = "render" /\ ev.stored
  /\ proc.playing /\ proc.startedOnce
  /\ proc.rebuffers = 0 /\ proc.underruns = 0
  /\ proc.tick >= 2
  /\ rx.chunks >= 2

(***************************************************************************)
(* C8: once the processor has seen eos and no more chunks are accepted,    *)
(* it eventually disables itself with the ring empty.                      *)
(***************************************************************************)
C8_EosDrains ==
  (proc.eos /\ ~receiving) ~> (~proc.enabled /\ Occupied = 0)

(***************************************************************************)
(* C9: when eos has been seen by a gate that never started and holds some  *)
(* audio but less than startFrames, the gate eventually plays.             *)
(***************************************************************************)
C9_EosForcesStart ==
  (/\ proc.eos /\ ~proc.startedOnce /\ rl.pc = "idle"
   /\ Occupied > 0
   /\ BufferedFrames(Occupied, proc.outRate, proc.inRate) < proc.startFrames)
    ~> proc.playing

(***************************************************************************)
(* C10: a playing gate pauses on a render tick exactly when buffered <     *)
(* lowFrames, unless the tick lies in a cooldown window that follows a     *)
(* previous rebuffer and buffered > emergencyLowFrames; when it pauses the *)
(* block is silent and rebuffers grows by one.                             *)
(***************************************************************************)
C10_RebufferRule ==
  [][LET afterRebuffer == /\ proc.rebuffers > 0
                          /\ proc.cooldownFrames > 0
                          /\ proc.outCursor < proc.cooldownUntil
         pause == /\ Buffered < proc.lowFrames
                  /\ ~(afterRebuffer /\ Buffered > proc.emergencyLowFrames)
     IN (GateStep /\ proc.playing) =>
          /\ proc'.playing <=> ~pause
          /\ pause => /\ proc'.rebuffers = proc.rebuffers + 1
                      /\ \A i \in 1..Len(out') : out'[i].silent]_vars

\* the gate was paused by a rebuffer and has not resumed
PausedRebuffering == proc.exists /\ proc.enabled /\ ~proc.playing /\ proc.rebuffers > 0

(***************************************************************************)
(* C11: a rebuffer on the tick with render cursor c sets the hold deadline *)
(* to c + holdFrames and nothing else moves it; a paused gate resumes only *)
(* on a tick whose cursor has reached the deadline and whose buffered      *)
(* frames have reached highFrames, so it is not playing on any tick below  *)
(* c + holdFrames.                                                         *)
(***************************************************************************)
C11_ResumeRule ==
  [][/\ (proc.exists /\ proc'.exists /\ proc'.holdUntil # proc.holdUntil)
          => /\ rl.pc = "loaded" /\ proc.playing /\ ~proc'.playing
             /\ proc'.rebuffers = proc.rebuffers + 1
             /\ proc'.holdUntil = proc.outCursor + proc.holdFrames
     /\ (PausedRebuffering /\ proc'.exists /\ proc'.playing)
          => /\ rl.pc = "loaded"
             /\ proc.outCursor >= proc.holdUntil
             /\ Buffered >= proc.highFrames]_vars

\* a tick found enough buffered to resume and was held back
C11_Witness ==
  /\ PausedRebuffering
  /\ ev.op = "render" /\ ev.path = "held"
  /\ proc.outCursor < proc.holdUntil
  /\ BufferedFrames(Occupied, proc.outRate, proc.inRate) >= proc.highFrames

\* a step that completes a process() call
RenderDone == ev'.op = "render" /\ rl'.pc = "idle"

(***************************************************************************)
(* C12: a process() call that ends with playing = false writes an all-zero *)
(* block and leaves the ring read cursor and the fractional position as    *)
(* they were.                                                              *)
(***************************************************************************)
C12_SilentWhenNotPlaying ==
  [][(RenderDone /\ ~proc'.playing)
       => /\ \A i \in 1..Len(out') : out'[i].silent
          /\ Len(out') = BlockFrames
          /\ ctrl'.r = ctrl.r
          /\ proc'.pos = proc.pos]_vars

\* the tick that paused a gate which had consumed part of the ring
C12_Witness ==
  /\ ev.op = "render" /\ ev.path = "rebuffer"
  /\ ~proc.playing
  /\ ctrl.r > 0 /\ Occupied > 0 /\ proc.pos > 0
  /\ \A i \in 1..Len(out) : out[i].silent

(***************************************************************************)
(* C13: a stop message, and an empty ring after eos, disable the           *)
(* processor; while it is disabled every process() call writes silence and *)
(* leaves the underrun and rebuffer counters alone, and only a reset or a  *)
(* config message enables it again.                                        *)
(***************************************************************************)
C13_StoppedIsFrozen ==
  [][/\ (ev'.op = "message" /\ ev'.type = "stop" /\ port' # port) => ~proc'.enabled
     /\ (ev'.op = "render" /\ ev'.path = "drained" /\ rl.pc = "loaded") => ~proc'.enabled
     /\ (proc.exists /\ ~proc.enabled /\ proc'.exists)
          => \/ ev'.op = "message" /\ ev'.type \in {"reset", "config"} /\ port' # port
             \/ /\ ~proc'.enabled
                /\ proc'.underruns = proc.underruns
                /\ proc'.rebuffers = proc.rebuffers
                /\ RenderDone => \A i \in 1..Len(out') : out'[i].silent]_vars

\* a processor that underran, drained after eos and was called again
C13_Witness ==
  /\ ev.op = "render" /\ ev.path = "disabled"
  /\ proc.eos /\ ~proc.enabled
  /\ proc.underruns > 0
  /\ proc.startedOnce

\* stopTtsStream has run since the last tts_begin and the message it posted,
\* if any, has been handled by the processor
ExplicitlyStopped == sessions > 0 /\ status = "idle" /\ port = <<>>

(***************************************************************************)
(* C14: once the session has been stopped explicitly and the processor has *)
(* handled the message, every process() call writes silence and leaves the *)
(* ring as it is: nothing buffered is rendered any more.                   *)
(***************************************************************************)
C14_StopSilences ==
  [][(ExplicitlyStopped /\ RenderDone)
       => /\ \A i \in 1..Len(out') : out'[i].silent
          /\ ctrl' = ctrl
          /\ audio' = audio]_vars

(***************************************************************************)
(* C15: from a call of stopTtsStream to the next tts_begin no step changes *)
(* the byte, chunk, frame and received-sample counters, the underrun and   *)
(* rebuffer counts kept on the main thread, or the recording.              *)
(***************************************************************************)
C15_StopFreezesCounters ==
  [][(sessions > 0 /\ status = "idle" /\ ev'.op # "tts_begin")
       => /\ rx' = rx
          /\ recorded' = recorded
          /\ wk'.underruns = wk.underruns
          /\ wk'.rebuffers = wk.rebuffers]_vars

\* a step of the binary branch of ws.onmessage
ChunkStep == ev'.op = "chunk" /\ rl' = rl /\ proc' = proc

(***************************************************************************)
(* C16: a binary frame that arrives while no session is active (before the *)
(* first tts_begin, or after tts_end and before the next tts_begin) is     *)
(* dropped: ring, cursors, counters and recording stay as they were and    *)
(* nothing is raised.                                                      *)
(***************************************************************************)
C16_ChunkOutsideSession ==
  [][(ChunkStep /\ ~receiving)
       => /\ ev'.outcome = "dropped"
          /\ audio' = audio /\ ctrl' = ctrl
          /\ rx' = rx
          /\ recorded' = recorded]_vars

\* a chunk dropped after tts_end, with samples of the session still in the ring
C16_Witness ==
  /\ ev.op = "chunk" /\ ev.outcome = "dropped"
  /\ sessions > 0 /\ ~receiving /\ status = "draining"
  /\ ringRef /\ Occupied > 0
  /\ rx.bytes > 0 /\ recorded.bytes > 0

(***************************************************************************)
(* C17: in a session of tts_begin, no chunk and tts_end the gate never     *)
(* plays, no underrun is counted, and after tts_end the processor          *)
(* eventually disables itself.                                             *)
(***************************************************************************)
C17_ScenarioC ==
  /\ []((rx.chunks = 0 /\ proc.exists) => (~proc.playing /\ proc.underruns = 0))
  /\ (status = "draining" /\ rx.chunks = 0) ~> (proc.exists /\ ~proc.enabled)

(***************************************************************************)
(* C18: reset is idempotent.  In every reachable state a second reset      *)
(* message leaves the processor as the first left it, and a second         *)
(* stopTtsStream({resetStats: true}) leaves the refs, counters, ring       *)
(* handles and posted messages as the first left them; the state right     *)
(* after either operation is a fixed point of it.                          *)
(***************************************************************************)
C18_ResetIdempotent ==
  /\ proc.exists => OnReset(OnReset(proc)) = OnReset(proc)
  /\ StopTtsStream(StopTtsStream(MainRefs, TRUE), TRUE) = StopTtsStream(MainRefs, TRUE)
  /\ (ev.op = "message" /\ ev.type = "reset" /\ rl.pc = "idle") => OnReset(proc) = proc
  /\ (ev.op = "stop" /\ ev.resetStats) => StopTtsStream(MainRefs, TRUE) = MainRefs

\* the reset of a stopTtsStream({resetStats: true}) reaches a processor that
\* has played
C18_Witness ==
  /\ ev.op = "message" /\ ev.type = "reset" /\ rl.pc = "idle"
  /\ proc.startedOnce
  /\ status = "idle" /\ ~nodeRef /\ ~ringRef
  /\ rx.bytes > 0

(***************************************************************************)
(* C19: both reset modes are supported.  stopTtsStream({resetStats: true}) *)
(* sets the underrun and rebuffer counters and the min and max buffered    *)
(* values to their initial values and posts reset, whose handler leaves    *)
(* the processor enabled, not playing, with counters 0;                    *)
(* stopTtsStream({resetStats: false}) leaves the underrun and rebuffer     *)
(* counters and min and max buffered as they were and posts stop, whose    *)
(* handler leaves the processor disabled, not playing, counters untouched. *)
(***************************************************************************)
C19_BothResetModes ==
  [][/\ (ev'.op = "stop" /\ ev'.resetStats) =>
          /\ status' = "idle" /\ ~wk'.playing /\ wk'.bufferedFrames = 0
          /\ wk'.underruns = 0 /\ wk'.rebuffers = 0
          /\ bufferedMs' = MsZero
          /\ nodeRef => (port' = Append(port, [type |-> "reset"]))
     /\ (ev'.op = "stop" /\ ~ev'.resetStats) =>
          /\ status' = "idle" /\ ~wk'.playing /\ wk'.bufferedFrames = 0
          /\ wk'.underruns = wk.underruns /\ wk'.rebuffers = wk.rebuffers
          /\ bufferedMs' = [bufferedMs EXCEPT !.cur = 0]
          /\ nodeRef => (port' = Append(port, [type |-> "stop"]))
     /\ (port # <<>> /\ Head(port).type = "reset" /\ port' = Tail(port)) =>
          /\ proc'.enabled /\ ~proc'.playing
          /\ proc'.underruns = 0 /\ proc'.rebuffers = 0
     /\ (port # <<>> /\ Head(port).type = "stop" /\ port' = Tail(port)) =>
          /\ ~proc'.enabled /\ ~proc'.playing
          /\ proc'.underruns = proc.underruns /\ proc'.rebuffers = proc.rebuffers
    ]_vars

\* a soft stop of a connected worklet with non-zero statistics on display
C19_Witness ==
  /\ ev.op = "stop" /\ ~ev.resetStats
  /\ port # <<>> /\ port[Len(port)].type = "stop"
  /\ wk.underruns > 0
  /\ bufferedMs.minFinite /\ bufferedMs.max > 0

(***************************************************************************)
(* C20: right after a tts_begin is handled, from any prior state, the      *)
(* chunk, byte, frame, received-sample, underrun and rebuffer counters are *)
(* 0, the ring write and read cursors are 0, the recording is empty and    *)
(* the input rate is the announced sample rate.                            *)
(***************************************************************************)
C20_BeginResetsAll ==
  ev.op = "tts_begin" =>
    /\ rx = RxZero
    /\ wk.underruns = 0 /\ wk.rebuffers = 0
    /\ ringRef /\ ctrl = [w |-> 0, r |-> 0]
    /\ recorded = NoRecording
    /\ sampleRate = ev.rate

(***************************************************************************)
(* C21: within a session no operation decreases a counter.  Every step     *)
(* other than the handling of tts_begin leaves the received bytes, chunks, *)
(* frames and samples, the underrun and rebuffer counters of the processor *)
(* and of the main thread, and the render cursor at least as large as they *)
(* were.                                                                   *)
(***************************************************************************)
C21_CountersMonotonic ==
  [][ev'.op # "tts_begin" =>
       /\ rx'.bytes >= rx.bytes /\ rx'.chunks >= rx.chunks
       /\ rx'.frames >= rx.frames /\ rx'.inSamples >= rx.inSamples
       /\ wk'.underruns >= wk.underruns /\ wk'.rebuffers >= wk.rebuffers
       /\ (proc.exists /\ proc'.exists) =>
             /\ proc'.underruns >= proc.underruns
             /\ proc'.rebuffers >= proc.rebuffers
             /\ proc'.outCursor >= proc.outCursor
    ]_vars

(***************************************************************************)
(* C22: a process() call that reaches the resampler writes an interpolated *)
(* frame only while at least 2 input samples are available; from the point *)
(* where fewer than 2 are available the block is silence, and that block   *)
(* adds exactly one underrun.                                              *)
(***************************************************************************)
Resampled ==
  rl.pc = "loaded" /\ rl'.pc = "idle" /\ ev'.op = "render"
    /\ ev'.path \in {"underrun", "rendered"}

C22_UnderrunSilence ==
  [][Resampled =>
       /\ \A i \in 1..Len(out') : ~out'[i].silent => out'[i].avail >= 2
       /\ (\E i \in 1..Len(out') : out'[i].silent)
             => proc'.underruns = proc.underruns + 1
    ]_vars

(***************************************************************************)
(* C23: the fractional carry this.pos satisfies 0 <= pos < 1 after every   *)
(* process() call (pos is kept as a numerator over outRate).               *)
(***************************************************************************)
C23_CarryInUnitInterval ==
  proc.exists => (0 <= proc.pos /\ proc.pos < proc.outRate)

(***************************************************************************)
(* C24: the fractional carry persists across process() calls.  A step      *)
(* changes this.pos only if it is a call that ran the resampling loop or   *)
(* the handling of a reset message: silent blocks of every kind, rebuffer  *)
(* pauses, eos, stop and the main-thread handlers leave it as it is, so a  *)
(* rendering call starts from the carry the previous one left.             *)
(***************************************************************************)
ResetDelivered == port # <<>> /\ Head(port).type = "reset" /\ port' = Tail(port)

C24_CarryPersists ==
  [][(proc.exists /\ proc'.exists) =>
       \/ proc'.pos = proc.pos
       \/ Resampled /\ ev'.path = "rendered"
       \/ ResetDelivered
    ]_vars

\* a rebuffer pause taken with a carry of one half
C24_Witness ==
  /\ proc.exists /\ proc.pos # 0
  /\ ev.op = "render" /\ ev.path = "rebuffer" /\ rl.pc = "idle"

(***************************************************************************)
(* C25: round trip.  Once the N samples of a session have been received    *)
(* and the processor has seen eos, rendering goes on until the processor   *)
(* disables itself, and the frames the resampling loop has written by then *)
(* are within 1 of round(N * outRate / inRate).                            *)
(***************************************************************************)
ExpectedFrames == RoundedFrames(rx.inSamples, proc.outRate, proc.inRate)

C25_RoundTrip ==
  (proc.eos /\ ~receiving)
    ~> (/\ ~proc.enabled
        /\ rendered >= ExpectedFrames - 1
        /\ rendered <= ExpectedFrames + 1)

\* the tts_end handler has run on a session that was receiving
Ended == receiving /\ ~receiving' /\ ev'.op = "tts_end"

(***************************************************************************)
(* C26: the WAV made at the tts_end of a session whose tts_begin started   *)
(* the recording has the canonical 44-byte header of 16-bit mono PCM: with *)
(* T the number of bytes recorded, the RIFF size is 36 + T, the format 1,  *)
(* one channel, the sample rate that of the session, the block align 2,    *)
(* 16 bits per sample, the data size T and the file 44 + T bytes long.     *)
(***************************************************************************)
C26_WavHeader ==
  [][(Ended /\ ev'.finalize = "made" /\ recordedSampleRate.state = sampleRate) =>
        /\ wav'.made
        /\ wav'.size = 44 + recorded.bytes
        /\ wav'.riffSize = 36 + recorded.bytes
        /\ wav'.fmtSize = 16
        /\ wav'.format = 1
        /\ wav'.numChannels = 1
        /\ wav'.sampleRate = sampleRate
        /\ wav'.byteRate = 2 * sampleRate
        /\ wav'.blockAlign = 2
        /\ wav'.bitsPerSample = 16
        /\ wav'.dataSize = recorded.bytes]_vars

(***************************************************************************)
(* C27: when every byte of the session was recorded, tts_end makes a WAV   *)
(* whose payload is the received bytes, all of them and in the order of    *)
(* their arrival, whether their number is even or odd.                     *)
(***************************************************************************)
C27_WavPayload ==
  [][(Ended /\ recordEnabled /\ recorded.bytes > 0 /\ recorded.bytes = rx.bytes) =>
        /\ ev'.finalize = "made"
        /\ wav'.payload = [i \in 1..rx.bytes |-> i]]_vars

\* what decides the playback: the processor, the ring and its cursors, the
\* port, the handles and state of the session, and the rendered output
Playback ==
  <<proc, rl, ctrl, audio, samples, ringRef, nodeRef, port, pending, receiving,
    status, sampleRate, out, rendered>>

\* a telemetry tick: a stats message handled, the stats interval, or the
\* drain check of tts_end
TelemetryTick == OnStats \/ StatsInterval \/ DrainCheck

C29_MinMaxWhilePlaying ==
  [][/\ (/\ StatsInterval
         /\ \/ bufferedMs'.minFinite # bufferedMs.minFinite
            \/ bufferedMs'.min # bufferedMs.min
            \/ bufferedMs'.max # bufferedMs.max)
        => (status # "idle" /\ wk.playing /\ wk.bufferedFrames > 0)
     /\ bufferedMs'.minFinite =>
          (0 < bufferedMs'.min /\ bufferedMs'.min <= bufferedMs'.max)]_vars

\* the interval has observed two different buffered durations while playing
C29_Witness ==
  /\ ev.op = "interval" /\ rl.pc = "idle"
  /\ bufferedMs.minFinite /\ bufferedMs.min < bufferedMs.max
  /\ bufferedMs.cur = bufferedMs.max
  /\ status # "idle" /\ wk.playing

\* the setup of the session in progress has failed: ensureSharedRing threw,
\* or the promise of ensureTtsWorklet was rejected
SetupFailed == sessions > 0 /\ (~env.sab \/ (~env.worklet /\ pending = <<>>))

(***************************************************************************)
(* C30: when the setup of a session fails for want of the                  *)
(* SharedArrayBuffer or of the AudioWorklet, the failure is reported as an *)
(* error, the session is left with no ring and no node, no setup is        *)
(* started again before the next tts_begin, and a chunk that arrives       *)
(* afterwards is not written and throws nothing.                           *)
(***************************************************************************)
C30_SetupFailure ==
  [][/\ (ev'.op = "tts_begin" /\ sessions' = sessions + 1 /\ ~env.sab) => error' # NoError
     /\ WorkletFailed => error' # NoError
     /\ SetupFailed' => (~ringRef' /\ ~nodeRef' /\ pending' = <<>>)
     /\ (SetupFailed /\ rx'.chunks = rx.chunks + 1) =>
          (ev'.outcome = "noring" /\ audio' = audio /\ ctrl' = ctrl)]_vars

(***************************************************************************)
(* C31: every call of process() advances the render cursor by the length   *)
(* of the block, whatever the state of the gate, with or without a ring,   *)
(* enabled or not; a reset puts it back to 0 and nothing else changes the  *)
(* cursor of a processor, so that it is always a whole number of blocks.   *)
(* (A step that constructs a processor replaces proc by the new one.)      *)
(***************************************************************************)
ProcessorConstructed == nodes'.connected > nodes.connected

C31_CursorAdvances ==
  [][(proc.exists /\ proc'.exists /\ ~ProcessorConstructed) =>
        /\ proc'.outCursor =
             IF ProcessBegin(BlockFrames, FALSE) THEN proc.outCursor + BlockFrames
             ELSE IF ResetDelivered THEN 0
             ELSE proc.outCursor
        /\ proc'.outCursor % BlockFrames = 0]_vars

\* two calls of process() have been counted by a processor that has no ring
\* yet
C31_Witness ==
  /\ proc.exists /\ proc.audioSamples = 0
  /\ ev.op = "render" /\ ev.path = "unconfigured"
  /\ proc.outCursor = 2 * BlockFrames

(***************************************************************************)
(* C32: when, after tts_end, the processor has played the stream out and   *)
(* its last report of no buffered frames has been handled, the drain check *)
(* stops the stream: the status goes from draining to idle; and never more *)
(* than one drain-check interval is set.                                   *)
(***************************************************************************)
C32_AutoFinish ==
  /\ [](timers <= 1)
  /\ (/\ status = "draining" /\ timers > 0
      /\ ~proc.enabled /\ statsMsg = NoStats
      /\ BufferedMsOf(wk.bufferedFrames, ctxRate) <= 5) ~> (status = "idle")

(***************************************************************************)
(* C33: however tts_end falls between tts_begin and the steps of the       *)
(* worklet setup that tts_begin started, the processor of the session gets *)
(* to see eos.                                                             *)
(***************************************************************************)
C33_EosReachesProcessor ==
  (sessions > 0 /\ latched /\ ~receiving) ~> (proc.exists /\ proc.eos)

(***************************************************************************)
(* C34: however the tts_begin messages and the worklet setups they start   *)
(* interleave, at most one AudioWorkletNode is connected, and at most one  *)
(* processor has been sent init_shared with the ring in use.               *)
(***************************************************************************)
C34_OneConsumer == nodes.connected <= 1 /\ nodes.attached <= 1

\* slot lies among the avail slots from r on: the region [read, write)
InOccupied(slot, r, avail, size) == ((slot - r) % size) < avail

(***************************************************************************)
(* C35: every ring slot that a call of process() reads for s0 or s1 lies   *)
(* in the occupied region between the read and the write cursor that the   *)
(* call loaded; the slot at the write cursor is never read.                *)
(***************************************************************************)
C35_ReadsOccupiedSlots ==
  [][(rl.pc = "loaded" /\ rl'.pc = "idle" /\ ev'.op = "render" /\ ev'.path = "rendered") =>
        LET size == proc.audioSamples
            avail0 == AvailableInputSamples(rl.w0, rl.r0, size)
            res == ProcessRest(proc, rl.w0, rl.r0, ctrl.w, audio, BlockFrames)
        IN \A k \in 1..Len(res.reads) :
              InOccupied(res.reads[k][1], rl.r0, avail0, size)]_vars

(***************************************************************************)
(* C36: once the processor has seen eos, playing the ring down to empty is *)
(* not a rebuffer: no call of process() with eos set increments the        *)
(* rebuffer counter or takes the gate from playing to the rebuffer pause.  *)
(***************************************************************************)
C36_NoRebufferAfterEos ==
  [][(proc.exists /\ proc.eos /\ rl.pc = "loaded" /\ rl'.pc = "idle") =>
        /\ proc'.rebuffers = proc.rebuffers
        /\ ev'.path # "rebuffer"]_vars

\* the first call of process() after the reset message was handled
FirstCallAfterReset ==
  /\ ev.op = "message" /\ ev.type = "reset"
  /\ rl.pc = "loaded" /\ rl'.pc = "idle"

(***************************************************************************)
(* C37: after reset the gate is that of a fresh session: a call that       *)
(* enters playing had at least startFrames buffered (more than 0 when      *)
(* startFrames is 0), and no hold or cooldown window armed before the      *)
(* reset is in effect.                                                     *)
(***************************************************************************)
C37_FreshGateAfterReset ==
  [][FirstCallAfterReset =>
        LET buffered == BufferedFrames(
                          AvailableInputSamples(rl.w0, rl.r0, proc.audioSamples),
                          proc.outRate, proc.inRate)
        IN /\ ~HoldActive(proc) /\ ~InCooldown(proc)
           /\ proc'.playing =>
                \/ buffered >= proc.startFrames
                \/ proc.startFrames = 0 /\ buffered > 0]_vars

(***************************************************************************)
(* C38: a call of process() adds at most 1 to underruns and at most 1 to   *)
(* rebuffers and never to both; a call that adds an underrun has passed    *)
(* the gate and leaves it playing; a call that adds a rebuffer found the   *)
(* gate playing and leaves it not playing.  No other step of a processor   *)
(* but the reset changes the counters.                                     *)
(***************************************************************************)
C38_CountersPerCall ==
  [][(proc.exists /\ proc'.exists /\ ~ResetDelivered /\ ~ProcessorConstructed) =>
        LET du == proc'.underruns - proc.underruns
            dr == proc'.rebuffers - proc.rebuffers
        IN /\ du \in {0, 1} /\ dr \in {0, 1} /\ du + dr <= 1
           /\ (du + dr = 1) => (rl.pc = "loaded" /\ rl'.pc = "idle")
           /\ (du = 1) => (proc'.playing /\ ev'.path \in {"underrun", "rendered"})
           /\ (dr = 1) => (proc.playing /\ ~proc'.playing /\ ev'.path = "rebuffer")]_vars

\* a call has just counted a rebuffer on a processor that had underrun before
C38_Witness ==
  /\ rl.pc = "idle" /\ ev.op = "render" /\ ev.path = "rebuffer"
  /\ proc.rebuffers = 1 /\ proc.underruns >= 1 /\ ~proc.playing

(***************************************************************************)
(* C39: from the handling of tts_end on, while the latch is set, the       *)
(* underrun and rebuffer counts on display keep their values through every *)
(* stats message and every tick of the intervals; they change only to 0,   *)
(* by the next tts_begin, which clears the latch, or by a stop that resets *)
(* the statistics.                                                         *)
(***************************************************************************)
C39_CountersLatched ==
  [][latched =>
        \/ shown' = shown
        \/ ev'.op = "tts_begin" /\ ~latched' /\ shown' = ShownZero
        \/ ev'.op = "stop" /\ ev'.resetStats /\ shown' = ShownZero]_vars

\* the interval has ticked after tts_end while the refs held newer counters
\* than the display and the stream was not idle
C39_Witness ==
  /\ latched /\ ev.op = "interval" /\ status # "idle"
  /\ ShownOf(wk) # shown

=============================================================================
